---- MODULE Spec2Model ----
(***************************************************************************)
(* Model of clean_comment.py: the comment-removal transform                *)
(* (_remove_comments_universal / process_code_content), the per-line       *)
(* inline-stripping loop, and the per-file driver (process_file,           *)
(* process_path, main).                                                    *)
(*                                                                         *)
(* Text is a sequence of one-character strings.  The regular expressions   *)
(* of COMMENT_DEFINITIONS are kept as data (their literal markers and      *)
(* character classes) and matched by operators that follow the regex       *)
(* semantics of re.match / re.fullmatch / re.sub: greedy and lazy          *)
(* quantifiers with backtracking, leftmost non-overlapping substitution.   *)
(***************************************************************************)
EXTENDS Integers, Sequences, FiniteSets, TLC

VARIABLES
    content,            \* process_code_content: the text passed in
    file_extension,     \* process_code_content: the extension passed in
    remove_all,         \* the mode flag (TRUE: --all, FALSE: inline only)
    pc,                 \* position of the modelled caller
    new_content,        \* value returned by process_code_content(content, ..)
    result_lines,       \* result_lines as it stands after the per-line loop (line 153)
    again,              \* value returned by a second call on new_content
    lang,               \* per-line body: name of the comment definition in use
    line_text,          \* per-line body: the line being processed
    temp_line,          \* temp_line_for_inline
    previous_state,     \* previous_state_before_inline_loop
    disk,               \* file id -> current text of the file
    dry_run,            \* the --dry-run flag
    todo,               \* files still to be handed to process_file, in order
    report              \* the status lines printed so far, <<file id, status>>

vars == <<content, file_extension, remove_all, pc, new_content, result_lines,
          again, lang, line_text, temp_line, previous_state,
          disk, dry_run, todo, report>>

transformVars == <<content, file_extension, new_content, result_lines, again>>
lineVars == <<lang, line_text, temp_line, previous_state>>
runVars == <<disk, dry_run, todo, report>>

(***************************************************************************)
(* Characters and the str methods the code uses.                           *)
(***************************************************************************)
NL == "\n"

\* The class [ \t] of the inline patterns.
BlankHT == {" ", "\t"}

\* What str.strip()/rstrip() remove and what \s matches.
Whitespace == {" ", "\t", "\n", "\r", "\f"}

Max(S) == CHOOSE x \in S : \A y \in S : y <= x
Min(S) == CHOOSE x \in S : \A y \in S : x <= y

\* s[i..] as a sequence (empty when i is past the end).
Drop(s, i) == SubSeq(s, i, Len(s))

\* str.rstrip()
rstrip(s) ==
    LET keep == {i \in 1..Len(s) : s[i] \notin Whitespace}
    IN  IF keep = {} THEN << >> ELSE SubSeq(s, 1, Max(keep))

\* str.strip()
strip(s) ==
    LET keep == {i \in 1..Len(s) : s[i] \notin Whitespace}
    IN  IF keep = {} THEN << >> ELSE SubSeq(s, Min(keep), Max(keep))

\* str.endswith('\n')
endswith_newline(s) == Len(s) > 0 /\ s[Len(s)] = NL

\* str.rstrip('\n')
rstrip_newlines(s) ==
    LET keep == {i \in 1..Len(s) : s[i] # NL}
    IN  IF keep = {} THEN << >> ELSE SubSeq(s, 1, Max(keep))

\* str.split('\n'): always at least one element.
RECURSIVE split(_)
split(s) ==
    LET nls == {i \in 1..Len(s) : s[i] = NL}
    IN  IF nls = {} THEN <<s>>
        ELSE LET i == Min(nls)
             IN  <<SubSeq(s, 1, i - 1)>> \o split(Drop(s, i + 1))

\* "\n".join(lines)
RECURSIVE join(_)
join(lines) ==
    IF Len(lines) = 0 THEN << >>
    ELSE IF Len(lines) = 1 THEN lines[1]
    ELSE lines[1] \o <<NL>> \o join(Tail(lines))

\* str.lower() on ASCII text.
UpperCase ==
    << "A", "B", "C", "D", "E", "F", "G", "H", "I", "J", "K", "L", "M",
       "N", "O", "P", "Q", "R", "S", "T", "U", "V", "W", "X", "Y", "Z" >>

LowerCase ==
    << "a", "b", "c", "d", "e", "f", "g", "h", "i", "j", "k", "l", "m",
       "n", "o", "p", "q", "r", "s", "t", "u", "v", "w", "x", "y", "z" >>

LowerChar(c) ==
    IF \E i \in 1..Len(UpperCase) : UpperCase[i] = c
    THEN LowerCase[CHOOSE i \in 1..Len(UpperCase) : UpperCase[i] = c]
    ELSE c

lower(s) == [i \in 1..Len(s) |-> LowerChar(s[i])]

\* The literal lit occurs in s starting at index i.
HasAt(s, i, lit) ==
    /\ i >= 1
    /\ i + Len(lit) - 1 <= Len(s)
    /\ \A j \in 1..Len(lit) : s[i + j - 1] = lit[j]

\* COMMENT_DEFINITIONS.  Every inline regex has one of the two shapes
\*     ( ^[^X\n]* )( [ \t]+ OPEN [^\n]* $ )            comment to the end of the line
\*     ( ^[^X\n]* )( [ \t]+ OPEN .*? CLOSE [ \t]* $ )  closed comment
\* every full_line regex the shape  ^\s* OPEN .* $  or  ^\s* OPEN .*? CLOSE \s* $,
\* and every block regex the shape  OPEN .*? CLOSE.  A pattern is kept as its
\* X, OPEN and CLOSE (CLOSE is ToEOL, the empty text, for a comment to the end
\* of the line).
None == "None"

ToEOL == << >>

Pat(x, o, c) == [excl |-> x, open |-> o, close |-> c]

\* A definition without 'block_dotall', or with block_dotall None.
NoBlock == Pat({}, << >>, << >>)

HASH == <<"#">>
SLASH2 == <<"/", "/">>
C_OPEN == <<"/", "*">>
C_CLOSE == <<"*", "/">>
X_OPEN == <<"<", "!", "-", "-">>
X_CLOSE == <<"-", "-", ">">>

COMMENT_DEFINITIONS ==
    [ python_like |->
        [ inline |-> << Pat({"#"}, HASH, ToEOL) >>,
          full_line |-> << Pat({}, HASH, ToEOL) >>,
          block_dotall |-> NoBlock ],
      c_like |->
        [ inline |-> << Pat({"/"}, SLASH2, ToEOL),
                        Pat({"/"}, C_OPEN, C_CLOSE) >>,
          full_line |-> << Pat({}, SLASH2, ToEOL),
                           Pat({}, C_OPEN, C_CLOSE) >>,
          block_dotall |-> Pat({}, C_OPEN, C_CLOSE) ],
      c_like_line_only |->
        [ inline |-> << Pat({"/"}, SLASH2, ToEOL) >>,
          full_line |-> << Pat({}, SLASH2, ToEOL) >>,
          block_dotall |-> NoBlock ],
      xml_like |->
        [ inline |-> << Pat({"<"}, X_OPEN, X_CLOSE) >>,
          full_line |-> << Pat({}, X_OPEN, X_CLOSE) >>,
          block_dotall |-> Pat({}, X_OPEN, X_CLOSE) ],
      css_like |->
        [ inline |-> << Pat({"/"}, C_OPEN, C_CLOSE) >>,
          full_line |-> << Pat({}, C_OPEN, C_CLOSE) >>,
          block_dotall |-> Pat({}, C_OPEN, C_CLOSE) ],
      php_like |->
        [ inline |-> << Pat({"/", "#"}, SLASH2, ToEOL),
                        Pat({"/", "#"}, HASH, ToEOL),
                        Pat({"/", "#"}, C_OPEN, C_CLOSE) >>,
          full_line |-> << Pat({}, SLASH2, ToEOL),
                           Pat({}, HASH, ToEOL),
                           Pat({}, C_OPEN, C_CLOSE) >>,
          block_dotall |-> Pat({}, C_OPEN, C_CLOSE) ] ]

Families == DOMAIN COMMENT_DEFINITIONS

\* LANGUAGE_MAP: extension (with its leading dot) -> name of its definition.
LANGUAGE_MAP ==
    { << <<".", "p", "y">>, "python_like" >>,
      << <<".", "s", "h">>, "python_like" >>,
      << <<".", "r", "b">>, "python_like" >>,
      << <<".", "y", "m", "l">>, "python_like" >>,
      << <<".", "y", "a", "m", "l">>, "python_like" >>,
      << <<".", "j", "s">>, "c_like" >>,
      << <<".", "j", "a", "v", "a">>, "c_like" >>,
      << <<".", "c">>, "c_like" >>,
      << <<".", "c", "p", "p">>, "c_like" >>,
      << <<".", "c", "s">>, "c_like" >>,
      << <<".", "k", "t", "s">>, "c_like" >>,
      << <<".", "k", "t">>, "c_like" >>,
      << <<".", "s", "w", "i", "f", "t">>, "c_like" >>,
      << <<".", "t", "s">>, "c_like" >>,
      << <<".", "j", "s", "x">>, "c_like" >>,
      << <<".", "t", "s", "x">>, "c_like" >>,
      << <<".", "j", "s", "o", "n">>, "c_like" >>,
      << <<".", "g", "o">>, "c_like_line_only" >>,
      << <<".", "r", "s">>, "c_like_line_only" >>,
      << <<".", "x", "m", "l">>, "xml_like" >>,
      << <<".", "h", "t", "m", "l">>, "xml_like" >>,
      << <<".", "c", "s", "s">>, "css_like" >>,
      << <<".", "p", "h", "p">>, "php_like" >> }

LanguageKeys == {e[1] : e \in LANGUAGE_MAP}

\* LANGUAGE_MAP.get(key): the name of the definition, or None.
LanguageGet(key) ==
    IF key \in LanguageKeys
    THEN (CHOOSE e \in LANGUAGE_MAP : e[1] = key)[2]
    ELSE None

(***************************************************************************)
(* Regex matching.                                                         *)
(***************************************************************************)
\* What follows OPEN in an inline pattern, from index i to the end of s:
\* [^\n]*$  or  .*?CLOSE[ \t]*$  (a line never holds a newline, so $ is the end).
InlineRest(p, s, i) ==
    IF p.close = ToEOL
    THEN \A j \in i..Len(s) : s[j] # NL
    ELSE \E q \in i..Len(s) :
            /\ HasAt(s, q, p.close)
            /\ \A j \in i..(q - 1) : s[j] # NL
            /\ \A j \in (q + Len(p.close))..Len(s) : s[j] \in BlankHT

\* The lengths group(1) can have in a match of inline pattern p at the start of s.
InlineGroup1Lens(p, s) ==
    {k \in 0..Len(s) :
        /\ \A j \in 1..k : s[j] \notin (p.excl \cup {NL})
        /\ \E w \in 1..(Len(s) - k) :
              /\ \A j \in (k + 1)..(k + w) : s[j] \in BlankHT
              /\ HasAt(s, k + w + 1, p.open)
              /\ InlineRest(p, s, k + w + 1 + Len(p.open))}

\* re.match(pattern, s) is not None
InlineMatches(p, s) == InlineGroup1Lens(p, s) # {}

\* match.group(1): the group is greedy, so it is the longest that lets the rest match.
InlineGroup1(p, s) == SubSeq(s, 1, Max(InlineGroup1Lens(p, s)))

\* re.fullmatch(pattern, t) is not None, for a full_line pattern.
FullMatches(p, t) ==
    \E w \in 0..Len(t) :
        /\ \A j \in 1..w : t[j] \in Whitespace
        /\ HasAt(t, w + 1, p.open)
        /\ LET i == w + 1 + Len(p.open)
           IN  IF p.close = ToEOL
               THEN \A j \in i..Len(t) : t[j] # NL
               ELSE \E q \in i..Len(t) :
                       /\ HasAt(t, q, p.close)
                       /\ \A j \in i..(q - 1) : t[j] # NL
                       /\ \A j \in (q + Len(p.close))..Len(t) : t[j] \in Whitespace

\* re.sub(block_pattern, '', s, flags=re.DOTALL): leftmost match, lazy body,
\* the scan resumes after the match and never looks back.
RECURSIVE BlockSub(_, _)
BlockSub(p, s) ==
    LET closes(i) == {q \in (i + Len(p.open))..Len(s) : HasAt(s, q, p.close)}
        starts == {i \in 1..Len(s) : HasAt(s, i, p.open) /\ closes(i) # {}}
    IN  IF starts = {} THEN s
        ELSE LET i == Min(starts)
                 q == Min(closes(i))
             IN  SubSeq(s, 1, i - 1) \o BlockSub(p, Drop(s, q + Len(p.close)))

(***************************************************************************)
(* _remove_comments_universal                                              *)
(***************************************************************************)
\* Stage 1 (lines 106-111): the block pattern, in remove-all mode only.
processed_content(text, lang_def, all) ==
    IF all /\ lang_def.block_dotall # NoBlock
    THEN BlockSub(lang_def.block_dotall, text)
    ELSE text

\* Stage 2a (lines 121-125): the stripped line fully matches a full_line pattern.
is_full_line_comment_type(lang_def, line) ==
    \E n \in 1..Len(lang_def.full_line) :
        FullMatches(lang_def.full_line[n], strip(line))

\* Mutant of ApplyInline: the guard on the code part is lost, inline-only mode
\* cuts like remove-all mode.
ApplyInline_NoCodeGuard(p, s, all) ==
    IF ~InlineMatches(p, s) THEN s ELSE rstrip(InlineGroup1(p, s))

\* Lines 137-150: one inline pattern tried on the current line.
ApplyInline(p, s, all) ==
    IF ~InlineMatches(p, s) THEN s
    ELSE LET code_part == InlineGroup1(p, s)
         IN  IF all THEN rstrip(code_part)
             ELSE IF strip(code_part) # << >> THEN rstrip(code_part)
             ELSE s

\* Lines 136-150: one pass of the for loop over the inline patterns, in order.
RECURSIVE InlinePass(_, _, _)
InlinePass(pats, s, all) ==
    IF pats = << >> THEN s
    ELSE InlinePass(Tail(pats), ApplyInline(Head(pats), s, all), all)

\* Lines 133-152: the while loop, entered with previous = "" and temp = the line.
RECURSIVE InlineLoop(_, _, _, _)
InlineLoop(lang_def, previous, temp, all) ==
    IF previous = temp THEN temp
    ELSE InlineLoop(lang_def, temp, InlinePass(lang_def.inline, temp, all), all)

\* Mutant of LineBody: a full-line comment is skipped instead of appended as "".
LineBody_DropsCommentLine(def, line, all) ==
    IF all /\ is_full_line_comment_type(def, line)
    THEN << >>
    ELSE << InlineLoop(def, << >>, line, all) >>

\* Mutant of LineBody: the full-line test is made in both modes.
LineBody_ClassifiesInBothModes(def, line, all) ==
    IF is_full_line_comment_type(def, line)
    THEN << << >> >>
    ELSE << InlineLoop(def, << >>, line, all) >>

\* Lines 117-153: what one line appends to result_lines.
LineBody(def, line, all) ==
    IF all /\ is_full_line_comment_type(def, line)
    THEN << << >> >>
    ELSE << InlineLoop(def, << >>, line, all) >>

\* Lines 116-153: the for loop over the lines.
RECURSIVE LineLoop(_, _, _)
LineLoop(lang_def, lines, all) ==
    IF lines = << >> THEN << >>
    ELSE LineBody(lang_def, Head(lines), all) \o LineLoop(lang_def, Tail(lines), all)

\* Line 158: whitespace-only lines become empty.
cleaned_stage1(lines) ==
    [n \in 1..Len(lines) |-> IF strip(lines[n]) # << >> THEN lines[n] ELSE << >>]

\* Lines 163-168: an empty line is kept only after a non-empty one, or first.
RECURSIVE CollapseRuns(_, _)
CollapseRuns(acc, lines) ==
    IF lines = << >> THEN acc
    ELSE LET l == Head(lines)
         IN  IF l # << >> THEN CollapseRuns(Append(acc, l), Tail(lines))
             ELSE IF acc = << >> \/ acc[Len(acc)] # << >>
                  THEN CollapseRuns(Append(acc, << >>), Tail(lines))
                  ELSE CollapseRuns(acc, Tail(lines))

\* Mutant of PopLeading: leading empty lines are left in place.
PopLeading_Keeps(lines) == lines

\* Lines 172-173: pop(0) while the first line is empty.
RECURSIVE PopLeading(_)
PopLeading(lines) ==
    IF lines # << >> /\ lines[1] = << >> THEN PopLeading(Tail(lines)) ELSE lines

\* Lines 175-176: pop() while more than one line is left and the last is empty.
RECURSIVE PopTrailing(_)
PopTrailing(lines) ==
    IF Len(lines) > 1 /\ lines[Len(lines)] = << >>
    THEN PopTrailing(SubSeq(lines, 1, Len(lines) - 1))
    ELSE lines

\* Lines 156-177: the clean-up of remove-all mode.
cleaned_stage2(lines) ==
    LET stage1 == cleaned_stage1(lines)
    IN  IF stage1 = << >> THEN << >>
        ELSE LET runs == CollapseRuns(<< >>, stage1)
             IN  IF runs = << >> THEN << >>
                 ELSE LET popped == PopLeading(runs)
                      IN  IF popped = << >> THEN << >> ELSE PopTrailing(popped)

\* Lines 113-153: result_lines as the per-line loop leaves it.
LinesAfterLoop(text, lang_def, all) ==
    LineLoop(lang_def, split(processed_content(text, lang_def, all)), all)

\* Mutant of FinalContent: the joined lines are returned as they are.
FinalContent_JoinOnly(text, lines) == join(lines)

\* Lines 179-202: join, then restore the trailing newline of the original.
FinalContent(text, lines) ==
    LET final_content == join(lines)
        original_had_trailing_newline == endswith_newline(text)
    IN  IF final_content = << >> /\ lines = << >> /\ text = <<NL>> THEN <<NL>>
        ELSE IF final_content = << >> /\ lines = << >> /\ text = << >> THEN << >>
        ELSE IF final_content # << >>
             THEN IF original_had_trailing_newline
                  THEN IF ~endswith_newline(final_content)
                       THEN final_content \o <<NL>>
                       ELSE final_content
                  ELSE IF endswith_newline(final_content)
                       THEN rstrip_newlines(final_content)
                       ELSE final_content
        ELSE IF original_had_trailing_newline THEN <<NL>>
        ELSE final_content

remove_comments_universal(text, lang_def, all) ==
    LET looped == LinesAfterLoop(text, lang_def, all)
    IN  FinalContent(text, IF all THEN cleaned_stage2(looped) ELSE looped)

\* Mutant of process_code_content: the extension is looked up as given.
process_code_content_NoLower(text, extension, all) ==
    LET name == LanguageGet(extension)
    IN  IF name = None THEN text
        ELSE remove_comments_universal(text, COMMENT_DEFINITIONS[name], all)

\* Lines 204-213.
process_code_content(text, extension, all) ==
    LET name == LanguageGet(lower(extension))
    IN  IF name = None THEN text
        ELSE remove_comments_universal(text, COMMENT_DEFINITIONS[name], all)

(***************************************************************************)
(* The inputs the specifications draw from.                                *)
(***************************************************************************)
MaxPieces == 4

\* Every text made of at most k pieces of P.
RECURSIVE Texts(_, _)
Texts(P, k) ==
    IF k = 0 THEN {<< >>}
    ELSE LET T == Texts(P, k - 1)
         IN  T \cup {t \o q : t \in T, q \in P}

\* Code, the two kinds of whitespace (in [ \t], and stripped but not in [ \t]).
NeutralPieces == {<<"a">>, <<" ">>, <<"\r">>}

\* The comment markers of a definition, as pieces of text.
MarkerPieces(name) ==
    CASE name = "python_like" -> {HASH}
      [] name = "c_like" -> {<<"/">>, C_OPEN, C_CLOSE}
      [] name = "c_like_line_only" -> {<<"/">>}
      [] name = "xml_like" -> {X_OPEN, X_CLOSE, <<">">>}
      [] name = "css_like" -> {<<"/">>, C_OPEN, C_CLOSE}
      [] name = "php_like" -> {<<"/">>, C_OPEN, C_CLOSE, HASH}

Extensions ==
    { <<".", "p", "y">>, <<".", "P", "y">>, <<".", "c">>, <<".", "g", "o">>,
      <<".", "x", "m", "l">>, <<".", "c", "s", "s">>, <<".", "p", "h", "p">>,
      <<".", "t", "x", "t">>, <<"p", "y">>, << >> }

\* The texts tried with an extension: built from the markers of its own
\* definition (any other character acts as code), or from '#' when it has none.
PiecesFor(extension) ==
    LET name == LanguageGet(lower(extension))
    IN  IF name = None THEN {<<"a">>, <<" ">>, HASH, <<NL>>}
        ELSE IF extension # lower(extension) THEN {<<"a">>, <<" ">>, HASH, <<NL>>}
        ELSE NeutralPieces \cup {<<NL>>} \cup MarkerPieces(name)

(***************************************************************************)
(* Spec: one call of process_code_content on a drawn request.              *)
(***************************************************************************)
IdleCall ==
    /\ content = << >>
    /\ file_extension = << >>
    /\ new_content = << >>
    /\ result_lines = << >>
    /\ again = << >>

IdleLine ==
    /\ lang = "python_like"
    /\ line_text = << >>
    /\ temp_line = << >>
    /\ previous_state = << >>

IdleRun ==
    /\ disk = << >>
    /\ dry_run = FALSE
    /\ todo = << >>
    /\ report = << >>

Init ==
    /\ pc = "call"
    /\ file_extension \in Extensions
    /\ remove_all \in BOOLEAN
    /\ content \in Texts(PiecesFor(file_extension), MaxPieces)
    /\ new_content = << >>
    /\ result_lines = << >>
    /\ again = << >>
    /\ IdleLine
    /\ IdleRun

\* Lines 204-213, with result_lines recorded as the per-line loop leaves it.
Call ==
    /\ pc = "call"
    /\ pc' = "returned"
    /\ new_content' = process_code_content(content, file_extension, remove_all)
    /\ result_lines' =
          LET name == LanguageGet(lower(file_extension))
          IN  IF name = None THEN << >>
              ELSE LinesAfterLoop(content, COMMENT_DEFINITIONS[name], remove_all)
    /\ UNCHANGED <<content, file_extension, remove_all, again>>
    /\ UNCHANGED lineVars
    /\ UNCHANGED runVars

Next == Call

Spec == Init /\ [][Next]_vars

(***************************************************************************)
(* SpecTwice: process_code_content called on a text and again on its own   *)
(* output, over texts long enough to hold nested block markers.            *)
(***************************************************************************)
MaxTwiceLen == 9

TwiceExtensions == { <<".", "c">>, <<".", "c", "s", "s">> }

InitTwice ==
    /\ pc = "call"
    /\ file_extension \in TwiceExtensions
    /\ remove_all \in BOOLEAN
    /\ content \in Texts({<<"a">>, <<"/">>, <<"*">>}, MaxTwiceLen)
    /\ new_content = << >>
    /\ result_lines = << >>
    /\ again = << >>
    /\ IdleLine
    /\ IdleRun

\* The caller hands the returned text back to process_code_content.
Recall ==
    /\ pc = "returned"
    /\ pc' = "recalled"
    /\ again' = process_code_content(new_content, file_extension, remove_all)
    /\ UNCHANGED <<content, file_extension, remove_all, new_content, result_lines>>
    /\ UNCHANGED lineVars
    /\ UNCHANGED runVars

NextTwice == Call \/ Recall

SpecTwice == InitTwice /\ [][NextTwice]_vars

(***************************************************************************)
(* SpecLine: the body of the for loop over the lines (lines 116-153), one  *)
(* step per iteration of the while loop.                                   *)
(***************************************************************************)
lang_def == COMMENT_DEFINITIONS[lang]

\* The lines the specification draws for a definition.
LineTexts(name) == Texts(NeutralPieces \cup MarkerPieces(name), MaxPieces)

InitLine ==
    /\ pc = "line"
    /\ lang \in Families
    /\ remove_all \in BOOLEAN
    /\ line_text \in LineTexts(lang)
    /\ temp_line = << >>
    /\ previous_state = << >>
    /\ IdleCall
    /\ IdleRun

\* Lines 119-128: in remove-all mode a full-line comment appends "" and continues.
FullLineComment ==
    /\ pc = "line"
    /\ remove_all
    /\ is_full_line_comment_type(lang_def, line_text)
    /\ pc' = "blanked"
    /\ temp_line' = << >>
    /\ UNCHANGED <<lang, line_text, previous_state, remove_all>>
    /\ UNCHANGED transformVars
    /\ UNCHANGED runVars

\* Lines 131-133: otherwise the while loop is entered.
EnterLoop ==
    /\ pc = "line"
    /\ ~(remove_all /\ is_full_line_comment_type(lang_def, line_text))
    /\ pc' = "while"
    /\ temp_line' = line_text
    /\ previous_state' = << >>
    /\ UNCHANGED <<lang, line_text, remove_all>>
    /\ UNCHANGED transformVars
    /\ UNCHANGED runVars

\* InlinePass tabulated over those lines, so that a step of the loop (and
\* ENABLED of it) is a lookup.
PassTable ==
    [name \in Families |->
        [all \in BOOLEAN |->
            [s \in LineTexts(name) |->
                InlinePass(COMMENT_DEFINITIONS[name].inline, s, all)]]]

\* Mutant of Pass: previous_state_of_temp_line is not refreshed in the loop.
Pass_KeepsPrevious ==
    /\ pc = "while"
    /\ previous_state # temp_line
    /\ temp_line' = PassTable[lang][remove_all][temp_line]
    /\ UNCHANGED <<pc, lang, line_text, previous_state, remove_all>>
    /\ UNCHANGED transformVars
    /\ UNCHANGED runVars

\* Lines 134-150: one iteration of the while loop.
Pass ==
    /\ pc = "while"
    /\ previous_state # temp_line
    /\ previous_state' = temp_line
    /\ temp_line' = PassTable[lang][remove_all][temp_line]
    /\ UNCHANGED <<pc, lang, line_text, remove_all>>
    /\ UNCHANGED transformVars
    /\ UNCHANGED runVars

\* Lines 152-153: the loop condition fails, the line is appended.
AppendLine ==
    /\ pc = "while"
    /\ previous_state = temp_line
    /\ pc' = "appended"
    /\ UNCHANGED <<lang, line_text, temp_line, previous_state, remove_all>>
    /\ UNCHANGED transformVars
    /\ UNCHANGED runVars

NextLine == FullLineComment \/ EnterLoop \/ Pass \/ AppendLine

\* The interpreter runs the loop on: a step that can be taken is taken.
SpecLine == InitLine /\ [][NextLine]_vars /\ WF_vars(NextLine)

(***************************************************************************)
(* SpecRun: main's loop over the paths, process_path and process_file.     *)
(***************************************************************************)
MaxFiles == 2

FileIds == 1..MaxFiles

PY == <<".", "p", "y">>
TXT == <<".", "t", "x", "t">>

\* A file on disk: its suffix, its text, and whether its bytes decode as UTF-8.
FileKinds ==
    { [suffix |-> PY, text |-> <<"a", " ", "#", "c", NL>>, utf8 |-> TRUE],
      [suffix |-> PY, text |-> <<"#", "c", NL, "a", NL>>, utf8 |-> TRUE],
      [suffix |-> PY, text |-> <<"a", " ", "#", "c", NL>>, utf8 |-> FALSE],
      [suffix |-> TXT, text |-> <<"a", " ", "#", "c", NL>>, utf8 |-> TRUE] }

FilePath(f) == [kind |-> "file", items |-> <<f>>]
DirPath == [kind |-> "dir", items |-> [n \in FileIds |-> n]]
EmptyDirPath == [kind |-> "dir", items |-> << >>]
MissingPath == [kind |-> "missing", items |-> << >>]

\* args.paths: every file named in turn; their directory; the files after a
\* path that does not exist; the directory after an empty one; a file and
\* then the directory that holds it.
PathLists ==
    LET each == [n \in FileIds |-> FilePath(n)]
    IN  { each, <<DirPath>>, <<MissingPath>> \o each, <<EmptyDirPath, DirPath>>,
          <<FilePath(1), DirPath>> }

\* What the operating system does to this call's open, read and write: nothing
\* wrong; open(.., 'r') or read raises; open(.., 'w') raises; open(.., 'w')
\* truncates the file and write raises.
IoOutcomes == {"ok", "read_error", "open_w_error", "write_error"}

\* The texts a file can hold during a run, and process_code_content
\* tabulated over them (a step of the run, and ENABLED of it, is a lookup).
DiskTexts ==
    LET first == {k.text : k \in FileKinds}
    IN  first \cup {<< >>}
          \cup {process_code_content(t, PY, all) : t \in first, all \in BOOLEAN}

NewContentTable ==
    [t \in DiskTexts |->
        [x \in {PY, TXT} |->
            [all \in BOOLEAN |-> process_code_content(t, x, all)]]]

InitRun ==
    /\ pc = "main"
    /\ disk \in [FileIds -> FileKinds]
    /\ dry_run \in BOOLEAN
    /\ remove_all \in BOOLEAN
    /\ todo \in PathLists
    /\ report = << >>
    /\ IdleCall
    /\ IdleLine

\* Mutant of FileResult: the dry_run flag is not consulted before writing.
FileResult_IgnoresDryRun(f, io) ==
    LET file == disk[f]
        new_text == NewContentTable[file.text][file.suffix][remove_all]
    IN  IF lower(file.suffix) \notin LanguageKeys
        THEN [status |-> "Skipping (unsupported)", text |-> file.text]
        ELSE IF io = "read_error"
        THEN [status |-> "Error processing", text |-> file.text]
        ELSE IF ~file.utf8
        THEN [status |-> "Skipping (encoding)", text |-> file.text]
        ELSE IF file.text = new_text
        THEN [status |-> "No changes needed", text |-> file.text]
        ELSE IF io = "open_w_error"
        THEN [status |-> "Error processing", text |-> file.text]
        ELSE IF io = "write_error"
        THEN [status |-> "Error processing", text |-> << >>]
        ELSE [status |-> "Modified", text |-> new_text]

\* Lines 217-247: the status process_file prints for file f, and the text the
\* file holds when it returns.
FileResult(f, io) ==
    LET file == disk[f]
        new_text == NewContentTable[file.text][file.suffix][remove_all]
    IN  IF lower(file.suffix) \notin LanguageKeys
        THEN [status |-> "Skipping (unsupported)", text |-> file.text]
        ELSE IF io = "read_error"
        THEN [status |-> "Error processing", text |-> file.text]
        ELSE IF ~file.utf8
        THEN [status |-> "Skipping (encoding)", text |-> file.text]
        ELSE IF file.text = new_text
        THEN [status |-> "No changes needed", text |-> file.text]
        ELSE IF dry_run
        THEN [status |-> "Would modify", text |-> file.text]
        ELSE IF io = "open_w_error"
        THEN [status |-> "Error processing", text |-> file.text]
        ELSE IF io = "write_error"
        THEN [status |-> "Error processing", text |-> << >>]
        ELSE [status |-> "Modified", text |-> new_text]

Printed(f, status) == Append(report, [file |-> f, status |-> status])

\* Mutant of process_file: the except Exception clause is missing, the
\* exception leaves main and nothing more is processed or printed.
process_file_Uncaught(f, io, rest) ==
    LET result == FileResult(f, io)
    IN  IF result.status = "Error processing"
        THEN /\ report' = report
             /\ disk' = [disk EXCEPT ![f].text = result.text]
             /\ todo' = << >>
        ELSE /\ report' = Printed(f, result.status)
             /\ disk' = [disk EXCEPT ![f].text = result.text]
             /\ todo' = rest

\* Lines 215-247.  rest is what remains to do once the call has returned: every
\* exception is caught inside, so the call always returns.
process_file(f, io, rest) ==
    LET result == FileResult(f, io)
    IN  /\ report' = Printed(f, result.status)
        /\ disk' = [disk EXCEPT ![f].text = result.text]
        /\ todo' = rest

\* Lines 253-254: the path is a file.
PathIsFile ==
    /\ todo # << >>
    /\ Head(todo).kind = "file"
    /\ \E io \in IoOutcomes : process_file(Head(todo).items[1], io, Tail(todo))
    /\ UNCHANGED <<pc, dry_run, remove_all>>
    /\ UNCHANGED transformVars
    /\ UNCHANGED lineVars

\* Lines 255-257: the path is a directory; rglob starts.
EnterDir ==
    /\ todo # << >>
    /\ Head(todo).kind = "dir"
    /\ report' = Printed(0, "Processing directory")
    /\ todo' = IF Head(todo).items = << >> THEN Tail(todo)
               ELSE <<[Head(todo) EXCEPT !.kind = "rglob"]>> \o Tail(todo)
    /\ UNCHANGED <<pc, disk, dry_run, remove_all>>
    /\ UNCHANGED transformVars
    /\ UNCHANGED lineVars

\* Lines 257-259: the next file rglob yields.
DirItem ==
    /\ todo # << >>
    /\ Head(todo).kind = "rglob"
    /\ LET items == Head(todo).items
           rest == IF Len(items) = 1 THEN Tail(todo)
                   ELSE <<[Head(todo) EXCEPT !.items = Tail(items)]>> \o Tail(todo)
       IN  \E io \in IoOutcomes : process_file(Head(items), io, rest)
    /\ UNCHANGED <<pc, dry_run, remove_all>>
    /\ UNCHANGED transformVars
    /\ UNCHANGED lineVars

\* Lines 260-261: neither a file nor a directory.
PathNotFound ==
    /\ todo # << >>
    /\ Head(todo).kind = "missing"
    /\ report' = Printed(0, "Path not found")
    /\ todo' = Tail(todo)
    /\ UNCHANGED <<pc, disk, dry_run, remove_all>>
    /\ UNCHANGED transformVars
    /\ UNCHANGED lineVars

NextRun == PathIsFile \/ EnterDir \/ DirItem \/ PathNotFound

\* Single-threaded and synchronous: main goes on to the next path.
SpecRun == InitRun /\ [][NextRun]_vars /\ WF_vars(NextRun)

(***************************************************************************)
(* Properties.                                                             *)
(***************************************************************************)
Supported == lower(file_extension) \in LanguageKeys

\* s is a prefix of t.
IsPrefix(s, t) == Len(s) <= Len(t) /\ SubSeq(t, 1, Len(s)) = s

\* A text read as lines, its final line terminator not counted as a line.
OutputLines(text) ==
    split(IF endswith_newline(text) THEN SubSeq(text, 1, Len(text) - 1) ELSE text)

\* C1: idempotence: process_code_content applied to its own output returns
\* that output, for every text, extension and mode.
C1_Idempotent == pc = "recalled" => again = new_content

\* C2: newline fidelity: for a supported extension and either mode the output
\* ends with a newline exactly when the input does, and the empty text and
\* the single newline come back unchanged.
C2_NewlineFidelity ==
    (pc = "returned" /\ Supported) =>
        /\ endswith_newline(new_content) <=> endswith_newline(content)
        /\ content \in {<< >>, <<NL>>} => new_content = content

\* Every line was a comment and collapsed away, and the newline was put back.
C2_Witness ==
    /\ pc = "returned"
    /\ Supported
    /\ remove_all
    /\ strip(content) # << >>
    /\ endswith_newline(content)
    /\ new_content = <<NL>>

C4_InlineOnlyKeepsCommentLines ==
    (pc = "appended" /\ ~remove_all /\ is_full_line_comment_type(lang_def, line_text))
        => temp_line = line_text

\* A comment-only line that an inline pattern does match (whitespace, then the
\* marker), so that only the guard on the code part keeps it.
C4_Witness ==
    /\ pc = "appended"
    /\ ~remove_all
    /\ is_full_line_comment_type(lang_def, line_text)
    /\ \E n \in 1..Len(lang_def.inline) : InlineMatches(lang_def.inline[n], line_text)

\* C5: an extension whose lowercased form is not a key of LANGUAGE_MAP gets
\* its text back unchanged; one that differs from a key only in letter case
\* is treated as that key.
C5_UnknownTypeNoOp ==
    pc = "returned" =>
        /\ ~Supported => new_content = content
        /\ Supported =>
              new_content = process_code_content(content, lower(file_extension), remove_all)

\* "py" without its dot is no key: a text that ".py" would change comes back as it was.
C5_Witness ==
    /\ pc = "returned"
    /\ file_extension = <<"p", "y">>
    /\ process_code_content(content, PY, remove_all) # content

\* C8 as stated: in remove-all mode the output has as many lines as the file.
C8_LineCountPreserved ==
    (pc = "returned" /\ Supported /\ remove_all) =>
        Len(split(new_content)) = Len(split(content))

\* C8, amended: in remove-all mode the per-line loop appends exactly one entry
\* per line of the block-stripped text, the empty string for a full-line
\* comment; the output has at most as many lines as the file (the block
\* stripper and the blank-line clean-up delete lines).
C8_ClassifierKeepsLineCount ==
    (pc = "returned" /\ Supported /\ remove_all) =>
        LET def == COMMENT_DEFINITIONS[LanguageGet(lower(file_extension))]
            lines == split(processed_content(content, def, TRUE))
        IN  /\ Len(result_lines) = Len(lines)
            /\ \A n \in 1..Len(lines) :
                  is_full_line_comment_type(def, lines[n]) => result_lines[n] = << >>
            /\ Len(split(new_content)) <= Len(split(content))

\* A full-line comment was blanked in place and the clean-up then deleted lines.
C8_Witness ==
    /\ pc = "returned"
    /\ Supported
    /\ remove_all
    /\ \E n \in 1..Len(result_lines) :
          result_lines[n] = << >> /\ split(content)[n] # << >>
    /\ Len(result_lines) = Len(split(content))
    /\ Len(split(new_content)) < Len(split(content))

\* C10: in inline-only mode the output has as many lines as the input, each
\* output line is a prefix of the input line at its position, and a line that
\* was cut still holds a non-whitespace character.
C10_InlineOnlyTruncates ==
    (pc = "returned" /\ Supported /\ ~remove_all) =>
        LET I == split(content)
            O == split(new_content)
        IN  /\ Len(O) = Len(I)
            /\ \A n \in 1..Len(O) :
                  /\ IsPrefix(O[n], I[n])
                  /\ O[n] # I[n] => strip(O[n]) # << >>

\* A text of several lines one of which was cut.
C10_Witness ==
    /\ pc = "returned"
    /\ Supported
    /\ ~remove_all
    /\ Len(split(content)) > 1
    /\ new_content # content

\* The file process_file is about to be called on (0: none).
CurrentFile ==
    IF todo = << >> THEN 0
    ELSE IF Head(todo).kind \in {"file", "rglob"} THEN Head(todo).items[1]
    ELSE 0

\* C6: process_file writes a file only when the transformed text differs from
\* the text read and dry-run is off: a step changes a file on disk only if it
\* is the file being processed, dry-run is off, its extension is supported,
\* its bytes decode and the transform returns a different text.
C6_WritesOnlyWhenChanged ==
    [][\A f \in FileIds :
          disk'[f] # disk[f] =>
              /\ f = CurrentFile
              /\ ~dry_run
              /\ lower(disk[f].suffix) \in LanguageKeys
              /\ disk[f].utf8
              /\ process_code_content(disk[f].text, disk[f].suffix, remove_all)
                    # disk[f].text
              /\ disk'[f].suffix = disk[f].suffix
              /\ disk'[f].utf8 = disk[f].utf8]_vars

\* One run that rewrote a file and passed over another without writing it.
C6_Witness ==
    /\ todo = << >>
    /\ \E n \in 1..Len(report) :
          /\ report[n].status = "Modified"
          /\ disk[report[n].file].text = <<"a", NL>>
    /\ \E n \in 1..Len(report) :
          report[n].status \in {"No changes needed", "Skipping (encoding)",
                                "Skipping (unsupported)"}

\* The files process_file has reported on, in order.
RECURSIVE Processed(_)
Processed(lines) ==
    IF lines = << >> THEN << >>
    ELSE (IF Head(lines).file = 0 THEN << >> ELSE <<Head(lines).file>>)
            \o Processed(Tail(lines))

\* The files the remaining paths still name, in order.
RECURSIVE Pending(_)
Pending(paths) ==
    IF paths = << >> THEN << >>
    ELSE Head(paths).items \o Pending(Tail(paths))

FileStatuses ==
    { "Modified", "Would modify", "No changes needed", "Skipping (unsupported)",
      "Skipping (encoding)", "Error processing" }

\* C7: errors are file-local: whatever happens to one file, it gets one status
\* line and the files after it stay to be processed, each file named by the
\* path list getting exactly one status by the end of the run.
C7_ErrorsAreFileLocal ==
    /\ [][Processed(report') \o Pending(todo') = Processed(report) \o Pending(todo)]_vars
    /\ [](\A n \in 1..Len(report) :
              report[n].file # 0 => report[n].status \in FileStatuses)
    /\ <>(todo = << >>)

\* A file failed with an error and a later file of the run was still processed.
C7_Witness ==
    /\ todo = << >>
    /\ \E m, n \in 1..Len(report) :
          /\ m < n
          /\ report[m].status = "Error processing"
          /\ report[n].file # 0
          /\ report[n].status = "Modified"

\* The line as it stands in the current pass before inline pattern n is tried.
BeforePattern(n) ==
    InlinePass(SubSeq(lang_def.inline, 1, n - 1), temp_line, remove_all)

\* C9: the inline loop terminates on every line: every replacement makes the
\* line strictly shorter, the loop is left exactly when a pass has left the
\* line unchanged, the line then appended is a fixed point of a pass, and the
\* loop is always left.
C9_InlineLoopTerminates ==
    /\ [](pc = "while" =>
            \A n \in 1..Len(lang_def.inline) :
                LET before == BeforePattern(n)
                    after == ApplyInline(lang_def.inline[n], before, remove_all)
                IN  after = before \/ Len(after) < Len(before))
    /\ [][(pc = "while" /\ previous_state = temp_line) =>
              (pc' = "appended" /\ temp_line' = temp_line)]_vars
    /\ [][(pc = "while" /\ pc' = "appended") => previous_state = temp_line]_vars
    /\ [](pc = "appended" =>
            InlinePass(lang_def.inline, temp_line, remove_all) = temp_line)
    /\ <>(pc \in {"appended", "blanked"})

\* The loop cut a comment off a line and was then left.
C9_Witness ==
    /\ pc = "appended"
    /\ temp_line # line_text
    /\ previous_state = temp_line

====
